---- MODULE Spec2Model ----
(***************************************************************************)
(* Model of the rescue-dog ranking core: RankingAlgorithm.score_dog,       *)
(* criteria_for_filter and rank_results of ranking_service.py, the         *)
(* validation and query construction of query_service.py, the sanitizer    *)
(* of result_service.py and the dashboard callbacks of app.py.             *)
(*                                                                         *)
(* Python values are tagged records of one shape, [t, s, h, d]:            *)
(*   t  the Python type ("none", "str", "int", "float", "bool", "dict")    *)
(*   s  the text of a str ("nan" marks the float NaN)                      *)
(*   h  twice the value of a number, so that x.5 floats are integers here  *)
(*   d  the content of a score_breakdown dict                              *)
(* A record (a Python dict) is a function from the keys it holds to        *)
(* values; a key that is missing is not in its DOMAIN.  Dicts live in      *)
(* heap, a sequence indexed by address, so that a copy and an alias of a   *)
(* dict are different things.                                              *)
(***************************************************************************)
EXTENDS Integers, Sequences, FiniteSets

VARIABLES heap, rows, criteria, pc, arg, score, ranked, exc,
          filter_type, query, ret, request, store, calls, columns,
          pipeline, threads

\* what the catalog, the sanitizer and the callbacks read and write
svars ==
  <<filter_type, query, ret, request, store, calls, columns, pipeline,
    threads>>

vars == <<heap, rows, criteria, pc, arg, score, ranked, exc, svars>>

MaxRows == 3

(***************************** Python values *******************************)

NoDict == [breed_match |-> 0, age_match |-> 0, sex_match |-> 0]

None == [t |-> "none", s |-> "", h |-> 0, d |-> NoDict]

StrV(x) == [t |-> "str", s |-> x, h |-> 0, d |-> NoDict]

IntV(n) == [t |-> "int", s |-> "", h |-> 2 * n, d |-> NoDict]

FloatV(twice) == [t |-> "float", s |-> "", h |-> twice, d |-> NoDict]

NaN == [t |-> "float", s |-> "nan", h |-> 0, d |-> NoDict]

BoolV(b) == [t |-> "bool", s |-> "", h |-> IF b THEN 2 ELSE 0, d |-> NoDict]

\* an int above the largest float, such as 10**400
BigInt == [t |-> "int", s |-> "10**400", h |-> 2000000000, d |-> NoDict]

\* a list, such as [1]
ListV == [t |-> "list", s |-> "[1]", h |-> 0, d |-> NoDict]

\* a reference to the dict at address a of the heap
Ref(a) == [t |-> "ref", s |-> "", h |-> a, d |-> NoDict]

Dict(b, a, x) ==
  [t |-> "dict", s |-> "", h |-> 0,
   d |-> [breed_match |-> b, age_match |-> a, sex_match |-> x]]

\* bool(v): None, "", 0, 0.0 and False are falsy; NaN and a dict with keys are truthy
Truthy(v) ==
  CASE v.t = "none" -> FALSE
    [] v.t = "str" -> v.s # ""
    [] v.t = "float" -> v.s = "nan" \/ v.h # 0
    [] v.t \in {"int", "bool"} -> v.h # 0
    [] OTHER -> TRUE

\* isinstance(v, (int, float)); bool is a subclass of int
IsNumber(v) == v.t \in {"int", "float", "bool"}

IsNaN(v) == v.t = "float" /\ v.s = "nan"

\* a <= b on two numbers; every comparison with NaN is False
NumLe(a, b) == ~IsNaN(a) /\ ~IsNaN(b) /\ a.h <= b.h

\* a == b on two strs
StrEq(a, b) == a.t = "str" /\ b.t = "str" /\ a.s = b.s

\* record.get(key): the value, or None when the key is missing
Get(record, key) == IF key \in DOMAIN record THEN record[key] ELSE None

(************************ ranking_service.py *******************************)

BREED_WEIGHT == 50

AGE_WEIGHT == 30

SEX_WEIGHT == 20

NoBreeds == [t |-> "none", elems |-> {}]

BreedSet(S) == [t |-> "set", elems |-> S]

MatchCriteria(breeds, min, max, sex) ==
  [preferred_breeds |-> breeds, min_weeks |-> min, max_weeks |-> max,
   preferred_sex |-> sex]

\* what a scoring helper hands back: a value, or the exception it raised
Ret(v) == [exc |-> "", value |-> v]

Raise(e) == [exc |-> e, value |-> 0]

\* str.lower() on the texts of the inputs
Lower(x) ==
  CASE x = "Labrador Retriever Mix" -> "labrador retriever mix"
    [] x = "Intact Female" -> "intact female"
    [] x = "Intact Male" -> "intact male"
    [] x = "Terrier Mix" -> "terrier mix"
    [] x = "Newfoundland" -> "newfoundland"
    [] OTHER -> x

\* score_breed comparing breed.lower() with the lowered preferred breeds
score_breed_ignore_case(record, crit) ==
  IF crit.preferred_breeds.t = "none" THEN Ret(0)
  ELSE LET breed == Get(record, "breed") IN
       IF Truthy(breed) /\ breed.t = "str"
          /\ Lower(breed.s) \in {Lower(b) : b \in crit.preferred_breeds.elems}
       THEN Ret(BREED_WEIGHT)
       ELSE Ret(0)

\* score_breed reading record.get("breed") or record.get("name")
score_breed_or_name(record, crit) ==
  IF crit.preferred_breeds.t = "none" THEN Ret(0)
  ELSE LET breed == IF Truthy(Get(record, "breed")) THEN Get(record, "breed")
                    ELSE Get(record, "name") IN
       IF Truthy(breed) /\ breed.t = "str" /\ breed.s \in crit.preferred_breeds.elems
       THEN Ret(BREED_WEIGHT)
       ELSE Ret(0)

score_breed(record, crit) ==
  IF crit.preferred_breeds.t = "none" THEN Ret(0)
  ELSE LET breed == Get(record, "breed") IN
       IF Truthy(breed) /\ breed.t = "str" /\ breed.s \in crit.preferred_breeds.elems
       THEN Ret(BREED_WEIGHT)
       ELSE Ret(0)

\* criteria.min_weeks <= age <= criteria.max_weeks: ordering a number against
\* None or a str raises TypeError
AgeInRange(age, crit) ==
  IF ~IsNumber(crit.min_weeks) \/ ~IsNumber(age) THEN Raise("TypeError")
  ELSE IF ~NumLe(crit.min_weeks, age) THEN Ret(0)
  ELSE IF ~IsNumber(crit.max_weeks) THEN Raise("TypeError")
  ELSE IF NumLe(age, crit.max_weeks) THEN Ret(AGE_WEIGHT)
  ELSE Ret(0)

\* score_age with the range test min < age < max
score_age_exclusive(record, crit) ==
  IF crit.min_weeks = None \/ crit.max_weeks = None THEN Ret(0)
  ELSE LET age == Get(record, "age_upon_outcome_in_weeks") IN
       IF ~IsNumber(age) THEN Ret(0)
       ELSE IF NumLe(crit.min_weeks, age) /\ NumLe(age, crit.max_weeks)
               /\ age.h # crit.min_weeks.h /\ age.h # crit.max_weeks.h
            THEN Ret(AGE_WEIGHT)
            ELSE Ret(0)

\* score_age returning early only when min_weeks and max_weeks are both None
score_age_both_none(record, crit) ==
  IF crit.min_weeks = None /\ crit.max_weeks = None THEN Ret(0)
  ELSE LET age == Get(record, "age_upon_outcome_in_weeks") IN
       IF ~IsNumber(age) THEN Ret(0)
       ELSE AgeInRange(age, crit)

\* score_age without the isinstance test on age
score_age_unchecked(record, crit) ==
  IF crit.min_weeks = None \/ crit.max_weeks = None THEN Ret(0)
  ELSE AgeInRange(Get(record, "age_upon_outcome_in_weeks"), crit)

score_age(record, crit) ==
  IF crit.min_weeks = None \/ crit.max_weeks = None THEN Ret(0)
  ELSE LET age == Get(record, "age_upon_outcome_in_weeks") IN
       IF ~IsNumber(age) THEN Ret(0)
       ELSE AgeInRange(age, crit)

\* score_sex comparing sex.lower() with preferred_sex.lower()
score_sex_ignore_case(record, crit) ==
  IF crit.preferred_sex = None THEN Ret(0)
  ELSE LET sex == Get(record, "sex_upon_outcome") IN
       IF Truthy(sex) /\ sex.t = "str" /\ Lower(sex.s) = Lower(crit.preferred_sex.s)
       THEN Ret(SEX_WEIGHT)
       ELSE Ret(0)

score_sex(record, crit) ==
  IF crit.preferred_sex = None THEN Ret(0)
  ELSE LET sex == Get(record, "sex_upon_outcome") IN
       IF Truthy(sex) /\ StrEq(sex, crit.preferred_sex)
       THEN Ret(SEX_WEIGHT)
       ELSE Ret(0)

BreedScore(b, a, x, total) ==
  [exc |-> "", breed_match |-> b, age_match |-> a, sex_match |-> x,
   total_score |-> total]

ScoreRaised(e) ==
  [exc |-> e, breed_match |-> 0, age_match |-> 0, sex_match |-> 0,
   total_score |-> 0]

NoScore == ScoreRaised("not called")

\* score_dog whose total leaves the sex score out
score_dog_no_sex(record, crit) ==
  LET breed_score == score_breed(record, crit)
      age_score == score_age(record, crit)
      sex_score == score_sex(record, crit)
  IN BreedScore(breed_score.value, age_score.value, sex_score.value,
                breed_score.value + age_score.value)

score_dog(record, crit) ==
  LET breed_score == score_breed(record, crit)
      age_score == score_age(record, crit)
      sex_score == score_sex(record, crit)
  IN IF breed_score.exc # "" THEN ScoreRaised(breed_score.exc)
     ELSE IF age_score.exc # "" THEN ScoreRaised(age_score.exc)
     ELSE IF sex_score.exc # "" THEN ScoreRaised(sex_score.exc)
     ELSE BreedScore(breed_score.value, age_score.value, sex_score.value,
                     breed_score.value + age_score.value + sex_score.value)

\* scored_record = record: the very dict of the caller, no copy
DictAlias(h, a) == [heap |-> h, addr |-> a]

\* dict(record): a new dict with the same items, at a fresh address
DictCopy(h, a) == [heap |-> Append(h, h[a]), addr |-> Len(h) + 1]

\* d[key] = v on the dict at address a
SetItem(h, a, key, v) ==
  [h EXCEPT ![a] = [k \in (DOMAIN h[a]) \cup {key} |->
                      IF k = key THEN v ELSE h[a][k]]]

\* a step of the sort without reverse=True: lowest key first
SortInsertAscending(sorted, x) ==
  LET n == Cardinality({i \in 1..Len(sorted) : sorted[i][1] <= x[1]})
  IN SubSeq(sorted, 1, n) \o <<x>> \o SubSeq(sorted, n + 1, Len(sorted))

\* a step of an ascending sort followed by reverse(): x goes in front of
\* the items with its own key
SortInsertBeforeTies(sorted, x) ==
  LET n == Cardinality({i \in 1..Len(sorted) : sorted[i][1] > x[1]})
  IN SubSeq(sorted, 1, n) \o <<x>> \o SubSeq(sorted, n + 1, Len(sorted))

\* one step of list.sort(key=x[0], reverse=True): x goes behind every item
\* whose key is at least its own
SortInsert(sorted, x) ==
  LET n == Cardinality({i \in 1..Len(sorted) : sorted[i][1] >= x[1]})
  IN SubSeq(sorted, 1, n) \o <<x>> \o SubSeq(sorted, n + 1, Len(sorted))

RECURSIVE SortByScore(_)
SortByScore(scored) ==
  IF scored = <<>> THEN <<>>
  ELSE SortInsert(SortByScore(SubSeq(scored, 1, Len(scored) - 1)),
                  scored[Len(scored)])

\* the body of the for loop of rank_results, for the record at rows[i]
ScoreRecord(st, record, crit) ==
  LET sc == score_dog(st.heap[record], crit) IN
  IF sc.exc # "" THEN [st EXCEPT !.exc = sc.exc]
  ELSE LET c == DictCopy(st.heap, record)
           h1 == SetItem(c.heap, c.addr, "match_score", IntV(sc.total_score))
           h2 == SetItem(h1, c.addr, "score_breakdown",
                         Dict(sc.breed_match, sc.age_match, sc.sex_match))
       IN [st EXCEPT !.heap = h2,
                     !.scored = Append(st.scored, <<sc.total_score, c.addr>>)]

RECURSIVE ScoreLoop(_, _, _, _)
ScoreLoop(st, rws, crit, i) ==
  IF i > Len(rws) \/ st.exc # "" THEN st
  ELSE ScoreLoop(ScoreRecord(st, rws[i], crit), rws, crit, i + 1)

\* rank_results returning [record for score, record in scored_records if score]
rank_results_if_score(h, rws, crit) ==
  LET st == ScoreLoop([heap |-> h, scored |-> <<>>, exc |-> ""], rws, crit, 1)
      sorted == SelectSeq(SortByScore(st.scored), LAMBDA x : x[1] # 0)
  IN [heap |-> st.heap, exc |-> st.exc,
      ret |-> IF st.exc # "" THEN <<>>
              ELSE [i \in 1..Len(sorted) |-> sorted[i][2]]]

rank_results(h, rws, crit) ==
  LET st == ScoreLoop([heap |-> h, scored |-> <<>>, exc |-> ""], rws, crit, 1)
      sorted == SortByScore(st.scored)
  IN [heap |-> st.heap, exc |-> st.exc,
      ret |-> IF st.exc # "" THEN <<>>
              ELSE [i \in 1..Len(sorted) |-> sorted[i][2]]]

(******************************* inputs ************************************)

Lab == "Labrador Retriever Mix"

IntactFemale == "Intact Female"

Absent == StrV("<missing key>")

BreedValues ==
  {Absent, None, StrV(""), StrV(Lab), StrV("labrador retriever mix"),
   StrV("Terrier Mix")}

SexValues ==
  {Absent, None, StrV(""), StrV(IntactFemale), StrV("intact female")}

AgeValues ==
  {Absent, None, StrV("52"), StrV("52 weeks"), BoolV(TRUE), NaN,
   IntV(-1), IntV(0), IntV(25), IntV(26), IntV(27), IntV(52), IntV(155), IntV(156),
   IntV(157), FloatV(51), FloatV(52), FloatV(105), FloatV(312), FloatV(313)}

\* the dict with the given items; Absent leaves the key out
MkRecord(items) ==
  [k \in {x \in DOMAIN items : items[x] # Absent} |-> items[k]]

Records ==
  {MkRecord([breed |-> b, age_upon_outcome_in_weeks |-> a,
             sex_upon_outcome |-> x]) :
     b \in BreedValues, a \in AgeValues, x \in SexValues}

Criterias ==
  {MatchCriteria(b, lo, hi, x) :
     b \in {NoBreeds, BreedSet({}), BreedSet({Lab}), BreedSet({Lab, ""}),
            BreedSet({Lab, "Newfoundland"})},
     lo \in {None, IntV(0), IntV(26), IntV(156)},
     hi \in {None, IntV(26), IntV(156)},
     x \in {None, StrV(""), StrV(IntactFemale)}}

EmptyCriteria == MatchCriteria(NoBreeds, None, None, None)

WaterCriteria ==
  MatchCriteria(BreedSet({Lab, "Chesapeake Bay Retriever", "Newfoundland"}),
                IntV(26), IntV(156), StrV(IntactFemale))

\* the records of the ranking runs: ties, partial matches, missing and null
\* fields, a textual age, and score fields that are already there
RankRecords ==
  {MkRecord([breed |-> b, age_upon_outcome_in_weeks |-> a,
             sex_upon_outcome |-> x, name |-> n, match_score |-> m,
             score_breakdown |-> Absent]) :
     <<b, a, x, n, m>> \in
       {<<StrV(Lab), IntV(52), StrV(IntactFemale), StrV("Ace"), Absent>>,
        <<StrV(Lab), IntV(52), StrV(IntactFemale), StrV("Bo"), Absent>>,
        <<StrV(Lab), Absent, Absent, Absent, Absent>>,
        <<StrV("Terrier Mix"), StrV("52 weeks"), StrV(IntactFemale), StrV("Cy"), Absent>>,
        <<Absent, Absent, Absent, Absent, Absent>>,
        <<StrV("Terrier Mix"), IntV(50), StrV("Intact Male"), StrV("Di"), IntV(999)>>,
        <<None, None, None, StrV("Ed"), Absent>>,
        <<StrV(Lab), IntV(157), StrV(IntactFemale), StrV("Flo"), StrV("n/a")>>}}

RankCriterias ==
  {EmptyCriteria, WaterCriteria,
   MatchCriteria(NoBreeds, IntV(26), IntV(156), None)}

\* every list of at most n dicts, each its own object
RECURSIVE Heaps(_)
Heaps(n) ==
  IF n = 0 THEN {<<>>}
  ELSE LET shorter == Heaps(n - 1) IN
       shorter \cup {Append(h, r) : h \in {x \in shorter : Len(x) = n - 1},
                                    r \in RankRecords}

\* records that carry fields the scoring does not name: a name, an
\* identifier, a coordinate, a match_score and a score_breakdown of an
\* earlier ranking
PassthroughRecords ==
  {MkRecord([breed |-> c[1], age_upon_outcome_in_weeks |-> c[2],
             sex_upon_outcome |-> c[3], name |-> e[1], animal_id |-> e[2],
             location_lat |-> e[3], match_score |-> e[4],
             score_breakdown |-> e[5]]) :
     c \in {<<StrV(Lab), IntV(52), StrV(IntactFemale)>>,
            <<StrV(Lab), StrV("52"), StrV(IntactFemale)>>,
            <<None, IntV(52), StrV(IntactFemale)>>,
            <<Absent, Absent, Absent>>,
            <<StrV("Terrier Mix"), FloatV(101), StrV("Intact Male")>>},
     e \in {<<Absent, Absent, Absent, Absent, Absent>>,
            <<StrV("Ace"), StrV("A1"), FloatV(61), Absent, Absent>>,
            <<StrV(Lab), Absent, None, IntV(999), StrV("n/a")>>,
            <<StrV("Bo"), StrV("A2"), Absent, IntV(0), None>>}}

(***************************** state machine *******************************)

TypeOK ==
  /\ pc \in {"call", "scored", "ranked", "validated", "queried", "criteria",
            "sanitized", "resanitized", "table", "graph", "summary",
            "aggregated", "resolved", "matched", "rescored"}
  /\ exc \in {"", "TypeError", "ValueError", "OverflowError", "Exception"}
  /\ arg \in 0..Len(rows)

\* no category, no request, no store: the scoring and ranking runs use none
InitNoService ==
  /\ filter_type = None
  /\ query = [t |-> "none", conds |-> <<>>]
  /\ ret = None
  /\ request = [sort_by |-> <<>>, page_current |-> None, page_size |-> None]
  /\ store = [up |-> TRUE, page |-> <<>>, counts |-> 0]
  /\ calls = <<>>
  /\ columns = {}
  /\ pipeline = <<>>
  /\ threads = <<>>

InitCall ==
  /\ rows = [i \in 1..Len(heap) |-> i]
  /\ pc = "call"
  /\ arg = 0
  /\ score = NoScore
  /\ ranked = <<>>
  /\ exc = ""

InitCommon == InitCall /\ InitNoService

\* one record and one criteria, from the whole of the scoring inputs
Init ==
  /\ heap \in {<<r>> : r \in Records}
  /\ criteria \in Criterias
  /\ InitCommon

\* a list of up to MaxRows records
InitRank ==
  /\ heap \in Heaps(MaxRows)
  /\ criteria \in RankCriterias
  /\ InitCommon

\* RankingAlgorithm.score_dog(rows[i], criteria)
ScoreDog ==
  /\ pc = "call"
  /\ \E i \in 1..Len(rows) :
       LET sc == score_dog(heap[rows[i]], criteria) IN
       /\ arg' = i
       /\ score' = sc
       /\ exc' = sc.exc
  /\ pc' = "scored"
  /\ UNCHANGED <<heap, rows, criteria, ranked, svars>>

\* rank_results(rows, criteria)
RankResults ==
  /\ pc = "call"
  /\ LET r == rank_results(heap, rows, criteria) IN
     /\ heap' = r.heap
     /\ ranked' = r.ret
     /\ exc' = r.exc
  /\ pc' = "ranked"
  /\ UNCHANGED <<rows, criteria, arg, score, svars>>

Next == ScoreDog \/ RankResults

Spec == Init /\ [][Next]_vars

SpecRank == InitRank /\ [][Next]_vars

\* two records, each with its own passthrough fields
InitPassthrough ==
  /\ heap \in {<<r1, r2>> : r1, r2 \in PassthroughRecords}
  /\ criteria \in RankCriterias
  /\ InitCommon

SpecPassthrough == InitPassthrough /\ [][Next]_vars

(************************** category catalog *******************************)

\* criteria_for_filter whose disaster entry repeats the 26..156 range of the
\* two entries above it
criteria_for_filter_copied_range(ft) ==
  IF StrEq(ft, StrV("water")) THEN WaterCriteria
  ELSE IF StrEq(ft, StrV("mountain")) THEN
    MatchCriteria(BreedSet({"German Shepherd", "Alaskan Malamute",
                            "Old English Sheepdog", "Siberian Husky",
                            "Rottweiler"}),
                  IntV(26), IntV(156), StrV("Intact Male"))
  ELSE IF StrEq(ft, StrV("disaster")) THEN
    MatchCriteria(BreedSet({"Doberman Pinscher", "German Shepherd",
                            "Golden Retriever", "Bloodhound", "Rottweiler"}),
                  IntV(26), IntV(156), StrV("Intact Male"))
  ELSE EmptyCriteria

\* criteria_for_filter comparing filter_type.strip().lower()
criteria_for_filter_normalised(ft) ==
  IF ft.t = "str" /\ ft.s \in {"water", "WATER", " water"} THEN WaterCriteria
  ELSE IF StrEq(ft, StrV("mountain")) THEN
    MatchCriteria(BreedSet({"German Shepherd", "Alaskan Malamute",
                            "Old English Sheepdog", "Siberian Husky",
                            "Rottweiler"}),
                  IntV(26), IntV(156), StrV("Intact Male"))
  ELSE IF StrEq(ft, StrV("disaster")) THEN
    MatchCriteria(BreedSet({"Doberman Pinscher", "German Shepherd",
                            "Golden Retriever", "Bloodhound", "Rottweiler"}),
                  IntV(20), IntV(300), StrV("Intact Male"))
  ELSE EmptyCriteria

criteria_for_filter(ft) ==
  IF StrEq(ft, StrV("water")) THEN WaterCriteria
  ELSE IF StrEq(ft, StrV("mountain")) THEN
    MatchCriteria(BreedSet({"German Shepherd", "Alaskan Malamute",
                            "Old English Sheepdog", "Siberian Husky",
                            "Rottweiler"}),
                  IntV(26), IntV(156), StrV("Intact Male"))
  ELSE IF StrEq(ft, StrV("disaster")) THEN
    MatchCriteria(BreedSet({"Doberman Pinscher", "German Shepherd",
                            "Golden Retriever", "Bloodhound", "Rottweiler"}),
                  IntV(20), IntV(300), StrV("Intact Male"))
  ELSE EmptyCriteria

(**************************** query_service.py *****************************)

ALLOWED_FILTERS == {"all", "water", "mountain", "disaster"}

\* str.strip().lower() on the texts of the inputs
Normalised(x) ==
  CASE x = "WATER" -> "water"
    [] x = " water" -> "water"
    [] OTHER -> x

\* validate_filter_type testing filter_type.strip().lower()
validate_filter_type_normalised(ft) ==
  IF ~(ft.t = "str" /\ Normalised(ft.s) \in ALLOWED_FILTERS)
  THEN [exc |-> "ValueError", value |-> None]
  ELSE Ret(ft)

validate_filter_type(ft) ==
  IF ~(ft.t = "str" /\ ft.s \in ALLOWED_FILTERS)
  THEN [exc |-> "ValueError", value |-> None]
  ELSE Ret(ft)

\* the conditions of a MongoDB query dict
BreedIn(list) ==
  [field |-> "breed", op |-> "$in", strs |-> list, gte |-> 0, lte |-> 0]

SexIs(label) ==
  [field |-> "sex_upon_outcome", op |-> "$eq", strs |-> <<label>>,
   gte |-> 0, lte |-> 0]

AgeBetween(lo, hi) ==
  [field |-> "age_upon_outcome_in_weeks", op |-> "$gte$lte", strs |-> <<>>,
   gte |-> lo, lte |-> hi]

And(conds) == [t |-> "$and", conds |-> conds]

EmptyQuery == [t |-> "{}", conds |-> <<>>]

NoQuery == [t |-> "none", conds |-> <<>>]

\* the if chain with the age range of water and mountain in the disaster
\* query too
QueryForCopiedRange(ft) ==
  IF StrEq(ft, StrV("water")) THEN
    And(<<BreedIn(<<"Labrador Retriever Mix", "Chesapeake Bay Retriever",
                    "Newfoundland">>),
          SexIs("Intact Female"), AgeBetween(26, 156)>>)
  ELSE IF StrEq(ft, StrV("mountain")) THEN
    And(<<BreedIn(<<"German Shepherd", "Alaskan Malamute",
                    "Old English Sheepdog", "Siberian Husky", "Rottweiler">>),
          SexIs("Intact Male"), AgeBetween(26, 156)>>)
  ELSE IF StrEq(ft, StrV("disaster")) THEN
    And(<<BreedIn(<<"Doberman Pinscher", "German Shepherd", "Golden Retriever",
                    "Bloodhound", "Rottweiler">>),
          SexIs("Intact Male"), AgeBetween(26, 156)>>)
  ELSE EmptyQuery

\* the if chain of build_rescue_query, after the validation
QueryFor(ft) ==
  IF StrEq(ft, StrV("water")) THEN
    And(<<BreedIn(<<"Labrador Retriever Mix", "Chesapeake Bay Retriever",
                    "Newfoundland">>),
          SexIs("Intact Female"), AgeBetween(26, 156)>>)
  ELSE IF StrEq(ft, StrV("mountain")) THEN
    And(<<BreedIn(<<"German Shepherd", "Alaskan Malamute",
                    "Old English Sheepdog", "Siberian Husky", "Rottweiler">>),
          SexIs("Intact Male"), AgeBetween(26, 156)>>)
  ELSE IF StrEq(ft, StrV("disaster")) THEN
    And(<<BreedIn(<<"Doberman Pinscher", "German Shepherd", "Golden Retriever",
                    "Bloodhound", "Rottweiler">>),
          SexIs("Intact Male"), AgeBetween(20, 300)>>)
  ELSE EmptyQuery

\* build_rescue_query whose disaster query leaves the age condition out
build_rescue_query_no_age(ft) ==
  LET v == validate_filter_type(ft) IN
  IF v.exc # "" THEN [exc |-> v.exc, query |-> NoQuery]
  ELSE IF StrEq(ft, StrV("disaster"))
       THEN [exc |-> "", query |-> And(SubSeq(QueryFor(ft).conds, 1, 2))]
       ELSE [exc |-> "", query |-> QueryFor(ft)]

\* build_rescue_query without its call of validate_filter_type
build_rescue_query_unvalidated(ft) == [exc |-> "", query |-> QueryFor(ft)]

build_rescue_query(ft) ==
  LET v == validate_filter_type(ft) IN
  IF v.exc # "" THEN [exc |-> v.exc, query |-> NoQuery]
  ELSE [exc |-> "", query |-> QueryFor(ft)]

\* MongoDB's evaluation of one condition on a document: $in and equality
\* compare texts exactly, a range holds for int and double values only
CondHolds(c, record) ==
  LET v == Get(record, c.field) IN
  CASE c.op = "$in" -> v.t = "str" /\ \E i \in 1..Len(c.strs) : c.strs[i] = v.s
    [] c.op = "$eq" -> v.t = "str" /\ c.strs[1] = v.s
    [] OTHER -> /\ v.t \in {"int", "float"} /\ ~IsNaN(v)
                /\ 2 * c.gte <= v.h /\ v.h <= 2 * c.lte

Matches(q, record) == \A i \in 1..Len(q.conds) : CondHolds(q.conds[i], record)

FilterTypes ==
  {StrV("all"), StrV("water"), StrV("mountain"), StrV("disaster"),
   StrV("WATER"), StrV(" water"), StrV(""), StrV("invalid"), None, IntV(5)}

\* one category value and one record
InitQuery ==
  /\ heap \in {<<r>> : r \in Records}
  /\ filter_type \in FilterTypes
  /\ criteria = EmptyCriteria
  /\ query = NoQuery
  /\ ret = None
  /\ request = [sort_by |-> <<>>, page_current |-> None, page_size |-> None]
  /\ store = [up |-> TRUE, page |-> <<>>, counts |-> 0]
  /\ calls = <<>>
  /\ columns = {}
  /\ pipeline = <<>>
  /\ threads = <<>>
  /\ InitCall

\* validate_filter_type(filter_type)
ValidateFilterType ==
  /\ pc = "call"
  /\ LET v == validate_filter_type(filter_type) IN
     /\ ret' = v.value
     /\ exc' = v.exc
  /\ pc' = "validated"
  /\ UNCHANGED <<heap, rows, criteria, arg, score, ranked, filter_type, query,
                 request, store, calls,
                 columns, pipeline, threads>>

\* build_rescue_query(filter_type)
BuildRescueQuery ==
  /\ pc = "call"
  /\ LET q == build_rescue_query(filter_type) IN
     /\ query' = q.query
     /\ exc' = q.exc
  /\ pc' = "queried"
  /\ UNCHANGED <<heap, rows, criteria, arg, score, ranked, filter_type, ret,
                 request, store, calls,
                 columns, pipeline, threads>>

\* criteria_for_filter(filter_type)
CriteriaForFilter ==
  /\ pc = "call"
  /\ criteria' = criteria_for_filter(filter_type)
  /\ pc' = "criteria"
  /\ UNCHANGED <<heap, rows, arg, score, ranked, exc, filter_type, query, ret,
                 request, store, calls,
                 columns, pipeline, threads>>

NextQuery == ValidateFilterType \/ BuildRescueQuery \/ CriteriaForFilter

SpecQuery == InitQuery /\ [][NextQuery]_vars

\* the dogs of test_rank_results_mixed_disaster_dogs
Doberman ==
  MkRecord([breed |-> StrV("Doberman Pinscher"),
            age_upon_outcome_in_weeks |-> IntV(100),
            sex_upon_outcome |-> StrV("Intact Male")])

TerrierMix ==
  MkRecord([breed |-> StrV("Terrier Mix"),
            age_upon_outcome_in_weeks |-> IntV(100),
            sex_upon_outcome |-> StrV("Intact Male")])

GermanShepherd ==
  MkRecord([breed |-> StrV("German Shepherd"),
            age_upon_outcome_in_weeks |-> IntV(400),
            sex_upon_outcome |-> StrV("Intact Male")])

DisasterDogs == {Doberman, TerrierMix, GermanShepherd}

\* every list of at most n of the test's dogs
RECURSIVE DogLists(_)
DogLists(n) ==
  IF n = 0 THEN {<<>>}
  ELSE LET shorter == DogLists(n - 1) IN
       shorter \cup {Append(h, r) : h \in {x \in shorter : Len(x) = n - 1},
                                    r \in DisasterDogs}

\* a list of the test's dogs and the criteria of one of the four categories
InitCategoryRank ==
  /\ heap \in DogLists(MaxRows)
  /\ filter_type \in {StrV("all"), StrV("water"), StrV("mountain"),
                       StrV("disaster")}
  /\ criteria = criteria_for_filter(filter_type)
  /\ query = NoQuery
  /\ ret = None
  /\ request = [sort_by |-> <<>>, page_current |-> None, page_size |-> None]
  /\ store = [up |-> TRUE, page |-> <<>>, counts |-> 0]
  /\ calls = <<>>
  /\ columns = {}
  /\ pipeline = <<>>
  /\ threads = <<>>
  /\ InitCall

SpecCategoryRank == InitCategoryRank /\ [][Next]_vars

\* the breeds of the two tables, and breeds of neither
TableBreeds ==
  {StrV(b) : b \in {"Labrador Retriever Mix", "Chesapeake Bay Retriever",
                    "Newfoundland", "German Shepherd", "Alaskan Malamute",
                    "Old English Sheepdog", "Siberian Husky", "Rottweiler",
                    "Doberman Pinscher", "Golden Retriever", "Bloodhound",
                    "Terrier Mix", "german shepherd", ""}}

TableSexes ==
  {StrV(IntactFemale), StrV("Intact Male"), StrV("intact male"), StrV("")}

\* ages at and around the bounds of the tables, whole and fractional, and
\* ages that are no int or float
TableAges ==
  {IntV(19), IntV(20), IntV(25), IntV(26), IntV(52), IntV(156), IntV(157),
   IntV(300), IntV(301), FloatV(39), FloatV(40), FloatV(51), FloatV(52),
   FloatV(313), FloatV(600), FloatV(601), NaN, BoolV(TRUE), StrV("52"), None}

TableRecords ==
  {MkRecord([breed |-> b, age_upon_outcome_in_weeks |-> a,
             sex_upon_outcome |-> x]) :
     b \in TableBreeds, a \in TableAges, x \in TableSexes}

\* one record and one of the three categories with a table row
InitTables ==
  /\ heap \in {<<r>> : r \in TableRecords}
  /\ filter_type \in {StrV("water"), StrV("mountain"), StrV("disaster")}
  /\ criteria = EmptyCriteria
  /\ query = NoQuery
  /\ ret = None
  /\ request = [sort_by |-> <<>>, page_current |-> None, page_size |-> None]
  /\ store = [up |-> TRUE, page |-> <<>>, counts |-> 0]
  /\ calls = <<>>
  /\ columns = {}
  /\ pipeline = <<>>
  /\ threads = <<>>
  /\ InitCall

\* query = build_rescue_query(filter_type)
\* criteria = criteria_for_filter(filter_type)
ResolveCategory ==
  /\ pc = "call"
  /\ LET q == build_rescue_query(filter_type) IN
     /\ query' = q.query
     /\ exc' = q.exc
  /\ criteria' = criteria_for_filter(filter_type)
  /\ pc' = "resolved"
  /\ UNCHANGED <<heap, rows, arg, score, ranked, filter_type, ret, request,
                 store, calls, columns, pipeline, threads>>

\* score_dog(rows[1], criteria) under the criteria of the category
ScoreResolved ==
  /\ pc = "resolved" /\ exc = ""
  /\ LET sc == score_dog(heap[rows[1]], criteria) IN
     /\ arg' = 1
     /\ score' = sc
     /\ exc' = sc.exc
  /\ pc' = "matched"
  /\ UNCHANGED <<heap, rows, criteria, ranked, svars>>

NextTables == ResolveCategory \/ ScoreResolved

SpecTables == InitTables /\ [][NextTables]_vars

(*************************** result_service.py *****************************)

REQUIRED_FIELDS == <<"breed", "sex_upon_outcome", "age_upon_outcome_in_weeks">>

\* OPTIONAL_FIELDS_WITH_DEFAULTS, in the order of its items
OPTIONAL_FIELDS == <<"name", "location_lat", "location_long">>

OptionalDefault(key) == IF key = "name" THEN StrV("") ELSE None

\* out.pop(key, None)
PopItem(h, a, key) ==
  [h EXCEPT ![a] = [k \in (DOMAIN h[a]) \ {key} |-> h[a][k]]]

\* out[key] = v whether or not the key is there
SetDefaultOverwriting(h, a, key, v) == SetItem(h, a, key, v)

\* out.setdefault(key, v): only a missing key is set
SetDefault(h, a, key, v) ==
  IF key \in DOMAIN h[a] THEN h ELSE SetItem(h, a, key, v)

RECURSIVE SetDefaults(_, _, _, _)
\* for k in keys: out.setdefault(k, default(k)); the required keys default
\* to None
SetDefaults(h, a, keys, required) ==
  IF keys = <<>> THEN h
  ELSE SetDefaults(SetDefault(h, a, Head(keys),
                              IF required THEN None
                              ELSE OptionalDefault(Head(keys))),
                   a, Tail(keys), required)

\* float(text): the number a text spells, surrounding blanks ignored, or
\* ValueError
ParseFloat(x) ==
  CASE x = "12" -> Ret(FloatV(24))
    [] x = "52" -> Ret(FloatV(104))
    [] x = " 52 " -> Ret(FloatV(104))
    [] x = "12.5" -> Ret(FloatV(25))
    [] x = "nan" -> Ret(NaN)
    [] OTHER -> [exc |-> "ValueError", value |-> None]

\* a conversion that accepts texts only
PyFloatOfTextOnly(v) ==
  IF v.t = "str" THEN ParseFloat(v.s)
  ELSE [exc |-> "TypeError", value |-> None]

\* float(v)
PyFloat(v) ==
  CASE v.t = "float" -> Ret(v)
    [] v.t = "int" -> IF v = BigInt
                      THEN [exc |-> "OverflowError", value |-> None]
                      ELSE Ret(FloatV(v.h))
    [] v.t = "bool" -> Ret(FloatV(v.h))
    [] v.t = "str" -> ParseFloat(v.s)
    [] OTHER -> [exc |-> "TypeError", value |-> None]

\* the try statement of sanitize_record on the dict at address a
CoerceAge(h, a) ==
  LET age == Get(h[a], "age_upon_outcome_in_weeks") IN
  IF age = None
  THEN [heap |-> SetItem(h, a, "age_upon_outcome_in_weeks", None), exc |-> ""]
  ELSE LET f == PyFloat(age) IN
       IF f.exc = ""
       THEN [heap |-> SetItem(h, a, "age_upon_outcome_in_weeks", f.value),
             exc |-> ""]
       ELSE IF f.exc \in {"TypeError", "ValueError"}
       THEN [heap |-> SetItem(h, a, "age_upon_outcome_in_weeks", None),
             exc |-> ""]
       ELSE [heap |-> h, exc |-> f.exc]

\* sanitize_record with out = r: the caller's dict itself is sanitized
sanitize_record_in_place(h, r) ==
  LET c == DictAlias(h, r)
      h1 == PopItem(c.heap, c.addr, "_id")
      h2 == SetDefaults(h1, c.addr, REQUIRED_FIELDS, TRUE)
      h3 == SetDefaults(h2, c.addr, OPTIONAL_FIELDS, FALSE)
      coerced == CoerceAge(h3, c.addr)
  IN [heap |-> coerced.heap, exc |-> coerced.exc,
      ret |-> IF coerced.exc = "" THEN Ref(c.addr) ELSE None]

sanitize_record(h, r) ==
  LET c == DictCopy(h, r)
      h1 == PopItem(c.heap, c.addr, "_id")
      h2 == SetDefaults(h1, c.addr, REQUIRED_FIELDS, TRUE)
      h3 == SetDefaults(h2, c.addr, OPTIONAL_FIELDS, FALSE)
      coerced == CoerceAge(h3, c.addr)
  IN [heap |-> coerced.heap, exc |-> coerced.exc,
      ret |-> IF coerced.exc = "" THEN Ref(c.addr) ELSE None]

SanitizeAges ==
  {Absent, None, StrV("12"), StrV(" 52 "), StrV("bad"), StrV(""), StrV("nan"),
   IntV(12), FloatV(25), NaN, BoolV(TRUE), BigInt, ListV}

\* raw records: with and without the store's _id, the required and the
\* optional fields, and a field the sanitizer does not know
SanitizeRecords ==
  {MkRecord([_id |-> i, breed |-> b, sex_upon_outcome |-> x,
             age_upon_outcome_in_weeks |-> a, name |-> n, location_lat |-> l,
             animal_type |-> t]) :
     i \in {Absent, StrV("65a1")}, b \in {Absent, None, StrV(Lab)},
     x \in {Absent, StrV(IntactFemale)}, a \in SanitizeAges,
     n \in {Absent, None, StrV("Rex")}, l \in {Absent, FloatV(61)},
     t \in {Absent, StrV("Dog")}}

\* one raw record
InitSanitize ==
  /\ heap \in {<<r>> : r \in SanitizeRecords}
  /\ criteria = EmptyCriteria
  /\ InitCommon

\* sanitize_record(rows[1])
SanitizeRecord ==
  /\ pc = "call"
  /\ LET r == sanitize_record(heap, rows[1]) IN
     /\ heap' = r.heap
     /\ ret' = r.ret
     /\ exc' = r.exc
  /\ pc' = "sanitized"
  /\ UNCHANGED <<rows, criteria, arg, score, ranked, filter_type, query,
                 request, store, calls,
                 columns, pipeline, threads>>

\* sanitize_record(out) on the record the first call returned
SanitizeAgain ==
  /\ pc = "sanitized" /\ exc = ""
  /\ LET r == sanitize_record(heap, ret.h) IN
     /\ heap' = r.heap
     /\ ret' = r.ret
     /\ exc' = r.exc
  /\ pc' = "resanitized"
  /\ UNCHANGED <<rows, criteria, arg, score, ranked, filter_type, query,
                 request, store, calls,
                 columns, pipeline, threads>>

NextSanitize == SanitizeRecord \/ SanitizeAgain

SpecSanitize == InitSanitize /\ [][NextSanitize]_vars

\* criteria with no range, with the range of water, and with a range that
\* holds the ages 1, 12 and 12.5
SanitizeCriterias ==
  {EmptyCriteria, WaterCriteria,
   MatchCriteria(BreedSet({Lab}), IntV(0), IntV(26), StrV(IntactFemale))}

\* one raw record and the criteria it is scored under once sanitized
InitSanitizeScore ==
  /\ heap \in {<<r>> : r \in SanitizeRecords}
  /\ criteria \in SanitizeCriterias
  /\ InitCommon

\* score_dog(out, criteria) on the record sanitize_record returned
ScoreSanitized ==
  /\ pc = "sanitized" /\ exc = ""
  /\ LET sc == score_dog(heap[ret.h], criteria) IN
     /\ arg' = 1
     /\ score' = sc
     /\ exc' = sc.exc
  /\ pc' = "rescored"
  /\ UNCHANGED <<heap, rows, criteria, ranked, svars>>

NextSanitizeScore == SanitizeRecord \/ ScoreSanitized

SpecSanitizeScore == InitSanitizeScore /\ [][NextSanitizeScore]_vars

(******************************** app.py ***********************************)

\* repo.ping(): whether the store answers
ping(st) == st.up

MinLimit == 1

MaxLimit == 500

\* the limit repo.read hands to the cursor, kept within 1..500
ClampLimit(limit) ==
  IF limit < MinLimit THEN MinLimit
  ELSE IF limit > MaxLimit THEN MaxLimit ELSE limit

\* repo.read(query, sort, skip, limit): the documents the collection's cursor
\* yields after skip, at most limit of them; none when the store is down
read(st, skip, limit) ==
  LET last == IF skip + ClampLimit(limit) < Len(st.page)
              THEN skip + ClampLimit(limit) ELSE Len(st.page)
  IN IF ~st.up \/ skip >= Len(st.page) THEN <<>>
     ELSE SubSeq(st.page, skip + 1, last)

\* the number of rows an aggregation of the collection returns
aggregate(st) == st.counts

RECURSIVE SanitizeLoop(_, _, _)
\* [sanitize_record(r) for r in rows], from rows[i] on
SanitizeLoop(st, rws, i) ==
  IF i > Len(rws) \/ st.exc # "" THEN st
  ELSE LET r == sanitize_record(st.heap, rws[i]) IN
       SanitizeLoop([heap |-> r.heap, exc |-> r.exc,
                     ret |-> IF r.exc = "" THEN Append(st.ret, r.ret.h)
                             ELSE <<>>],
                    rws, i + 1)

sanitize_rows(h, rws) ==
  SanitizeLoop([heap |-> h, exc |-> "", ret |-> <<>>], rws, 1)

DefaultPage == 0

DefaultPageSize == 10

\* value or default
OrDefault(v, default) == IF Truthy(v) THEN v.h \div 2 ELSE default

\* if sort_by: None and the empty list are falsy
HasSort(sort_by) == sort_by # None /\ sort_by # <<>>

\* sorted(ranked, key=lambda r: r.get("match_score", 0), reverse=True)
SortedByMatchScore(h, rws) ==
  LET keyed == [i \in 1..Len(rws) |->
                  <<IF "match_score" \in DOMAIN h[rws[i]]
                    THEN h[rws[i]]["match_score"].h \div 2 ELSE 0,
                    rws[i]>>]
      sorted == SortByScore(keyed)
  IN [i \in 1..Len(sorted) |-> sorted[i][2]]

\* name = v: F applied to the value of v, which is computed once
Assigned(v, F(_)) == CHOOSE r \in {F(x) : x \in {v}} : TRUE

NoPage(h, log, e) ==
  [heap |-> h, rows |-> <<>>, data |-> <<>>, columns |-> {}, exc |-> e,
   calls |-> log]

\* update_table that ranks whatever the category is
update_table_unvalidated(h, st, ft, req) ==
  LET crit == criteria_for_filter(ft)
      page_current == OrDefault(req.page_current, DefaultPage)
      page_size == OrDefault(req.page_size, DefaultPageSize)
      raw == read(st, page_current * page_size, page_size)
      log == <<"ping", "criteria_for_filter", "read", "sanitize_rows">>
  IN IF ~ping(st) THEN NoPage(h, <<"ping">>, "")
     ELSE
     Assigned(sanitize_rows(h, raw), LAMBDA san :
     IF san.exc # "" THEN NoPage(san.heap, log, san.exc)
     ELSE IF san.ret = <<>> THEN NoPage(san.heap, log, "")
     ELSE
     Assigned(rank_results(san.heap, san.ret, crit), LAMBDA rk :
       [heap |-> rk.heap, rows |-> san.ret, data |-> rk.ret,
        columns |-> DOMAIN rk.heap[rk.ret[1]], exc |-> rk.exc,
        calls |-> Append(log, "rank_results")]))

\* update_table without the "if not rows" return
update_table_rank_empty(h, st, ft, req) ==
  LET v == validate_filter_type(ft) IN
  IF v.exc = "ValueError" THEN NoPage(h, <<"validate_filter_type">>, "")
  ELSE IF ~ping(st) THEN NoPage(h, <<"validate_filter_type", "ping">>, "")
  ELSE
  LET crit == criteria_for_filter(ft)
      page_current == OrDefault(req.page_current, DefaultPage)
      page_size == OrDefault(req.page_size, DefaultPageSize)
      raw == read(st, page_current * page_size, page_size)
      log == <<"validate_filter_type", "ping", "build_rescue_query",
               "criteria_for_filter", "read", "sanitize_rows", "rank_results">>
  IN Assigned(sanitize_rows(h, raw), LAMBDA san :
     Assigned(rank_results(san.heap, san.ret, crit), LAMBDA rk :
       IF rk.ret = <<>> THEN NoPage(rk.heap, log, "IndexError")
       ELSE [heap |-> rk.heap, rows |-> san.ret, data |-> rk.ret,
             columns |-> DOMAIN rk.heap[rk.ret[1]], exc |-> "",
             calls |-> log]))

\* update_table(filter_type, page_current, page_size, sort_by): the new heap,
\* the sanitized rows in the order of the read, the returned data and
\* columns, and the functions called
update_table(h, st, ft, req) ==
  LET v == validate_filter_type(ft) IN
  IF v.exc = "ValueError" THEN NoPage(h, <<"validate_filter_type">>, "")
  ELSE IF ~ping(st) THEN NoPage(h, <<"validate_filter_type", "ping">>, "")
  ELSE
  LET crit == criteria_for_filter(ft)
      page_current == OrDefault(req.page_current, DefaultPage)
      page_size == OrDefault(req.page_size, DefaultPageSize)
      raw == read(st, page_current * page_size, page_size)
      log == <<"validate_filter_type", "ping", "build_rescue_query",
               "criteria_for_filter", "read", "sanitize_rows">>
  IN Assigned(sanitize_rows(h, raw), LAMBDA san :
     IF san.exc # "" THEN NoPage(san.heap, log, san.exc)
     ELSE IF san.ret = <<>> THEN NoPage(san.heap, log, "")
     ELSE
     Assigned(rank_results(san.heap, san.ret, crit), LAMBDA rk :
     LET data == IF HasSort(req.sort_by) THEN rk.ret
                 ELSE SortedByMatchScore(rk.heap, rk.ret)
     IN IF rk.exc # "" THEN NoPage(rk.heap, Append(log, "rank_results"), rk.exc)
        ELSE [heap |-> rk.heap, rows |-> san.ret, data |-> data,
              columns |-> DOMAIN rk.heap[data[1]], exc |-> "",
              calls |-> log \o (IF HasSort(req.sort_by)
                                THEN <<"rank_results">>
                                ELSE <<"rank_results", "sorted">>)]))

\* update_graph that asks the store whether it is there before it looks
\* at the category
update_graph_ping_first(st, ft) ==
  LET v == validate_filter_type(ft) IN
  IF ~ping(st)
  THEN [ret |-> StrV("Database unavailable."), calls |-> <<"ping">>]
  ELSE IF v.exc = "ValueError"
  THEN [ret |-> StrV("Invalid filter."),
        calls |-> <<"ping", "validate_filter_type">>]
  ELSE [ret |-> IF aggregate(st) = 0
                THEN StrV("No data available for this filter.")
                ELSE StrV("dcc.Graph"),
        calls |-> <<"ping", "validate_filter_type", "build_rescue_query",
                    "aggregate_breed_counts">>]

\* update_graph(filter_type): the text or the figure shown, and the calls
update_graph(st, ft) ==
  LET v == validate_filter_type(ft) IN
  IF v.exc = "ValueError"
  THEN [ret |-> StrV("Invalid filter."), calls |-> <<"validate_filter_type">>]
  ELSE IF ~ping(st)
  THEN [ret |-> StrV("Database unavailable."),
        calls |-> <<"validate_filter_type", "ping">>]
  ELSE [ret |-> IF aggregate(st) = 0
                THEN StrV("No data available for this filter.")
                ELSE StrV("dcc.Graph"),
        calls |-> <<"validate_filter_type", "ping", "build_rescue_query",
                    "aggregate_breed_counts">>]

\* update_summary(filter_type)
update_summary(st, ft) ==
  LET v == validate_filter_type(ft) IN
  IF v.exc = "ValueError"
  THEN [ret |-> StrV("Invalid filter."), calls |-> <<"validate_filter_type">>]
  ELSE IF ~ping(st)
  THEN [ret |-> StrV("Database unavailable."),
        calls |-> <<"validate_filter_type", "ping">>]
  ELSE [ret |-> IF aggregate(st) = 0
                THEN StrV("No summary data available.")
                ELSE StrV("html.Div"),
        calls |-> <<"validate_filter_type", "ping", "build_rescue_query",
                    "aggregate_sex_counts", "aggregate_age_summary">>]

\* the documents of the store: a partial match with a name, a full match
\* whose age is a text and whose name is missing, and a full match (for the
\* water category)
AppDocs ==
  {MkRecord([breed |-> b, age_upon_outcome_in_weeks |-> a,
             sex_upon_outcome |-> x, name |-> n]) :
     <<b, a, x, n>> \in
       {<<StrV("Terrier Mix"), IntV(50), StrV("Intact Male"), StrV("Di")>>,
        <<StrV(Lab), StrV("52"), StrV(IntactFemale), Absent>>,
        <<StrV(Lab), IntV(52), StrV(IntactFemale), StrV("Ace")>>}}

\* every list of at most n documents
RECURSIVE AppHeaps(_)
AppHeaps(n) ==
  IF n = 0 THEN {<<>>}
  ELSE LET shorter == AppHeaps(n - 1) IN
       shorter \cup {Append(h, r) : h \in {x \in shorter : Len(x) = n - 1},
                                    r \in AppDocs}

SortBys == {None, <<>>, <<[column_id |-> "name", direction |-> "asc"]>>}

\* a category selection, a page request and a store whose cursor yields up
\* to MaxRows documents
InitApp ==
  /\ heap \in AppHeaps(MaxRows)
  /\ filter_type \in FilterTypes
  /\ request \in [sort_by : SortBys, page_current : {None, IntV(1)},
                   page_size : {None, IntV(2)}]
  /\ store \in [up : BOOLEAN, page : {[i \in 1..Len(heap) |-> i]},
                 counts : {0, 2}]
  /\ criteria = EmptyCriteria
  /\ query = NoQuery
  /\ ret = None
  /\ calls = <<>>
  /\ columns = {}
  /\ pipeline = <<>>
  /\ threads = <<>>
  /\ rows = <<>>
  /\ pc = "call"
  /\ arg = 0
  /\ score = NoScore
  /\ ranked = <<>>
  /\ exc = ""

UpdateTable ==
  /\ pc = "call"
  /\ \E t \in {update_table(heap, store, filter_type, request)} :
     /\ heap' = t.heap
     /\ rows' = t.rows
     /\ ranked' = t.data
     /\ columns' = t.columns
     /\ exc' = t.exc
     /\ calls' = t.calls
  /\ pc' = "table"
  /\ UNCHANGED <<criteria, arg, score, filter_type, query, ret, request,
                 store, pipeline, threads>>

UpdateGraph ==
  /\ pc = "call"
  /\ LET g == update_graph(store, filter_type) IN
     /\ ret' = g.ret
     /\ calls' = g.calls
  /\ pc' = "graph"
  /\ UNCHANGED <<heap, rows, criteria, arg, score, ranked, exc, filter_type,
                 query, request, store, columns, pipeline, threads>>

UpdateSummary ==
  /\ pc = "call"
  /\ LET m == update_summary(store, filter_type) IN
     /\ ret' = m.ret
     /\ calls' = m.calls
  /\ pc' = "summary"
  /\ UNCHANGED <<heap, rows, criteria, arg, score, ranked, exc, filter_type,
                 query, request, store, columns, pipeline, threads>>

NextApp == UpdateTable \/ UpdateGraph \/ UpdateSummary

SpecApp == InitApp /\ [][NextApp]_vars

\* documents with a text breed, a text sex and a numeric age, two for water,
\* one for mountain and disaster, one for disaster alone, and one for no
\* table row
StoredDocs ==
  {MkRecord([breed |-> b, age_upon_outcome_in_weeks |-> a,
             sex_upon_outcome |-> x, name |-> n]) :
     <<b, a, x, n>> \in
       {<<StrV(Lab), IntV(52), StrV(IntactFemale), StrV("Ace")>>,
        <<StrV("Chesapeake Bay Retriever"), FloatV(52), StrV(IntactFemale),
          StrV("Bo")>>,
        <<StrV("German Shepherd"), IntV(156), StrV("Intact Male"),
          StrV("Cy")>>,
        <<StrV("Rottweiler"), IntV(20), StrV("Intact Male"), StrV("Di")>>,
        <<StrV("Terrier Mix"), IntV(50), StrV("Intact Male"), StrV("Eve")>>}}

\* every list of at most n of the documents that satisfy the query
RECURSIVE FindResults(_, _)
FindResults(q, n) ==
  IF n = 0 THEN {<<>>}
  ELSE LET shorter == FindResults(q, n - 1) IN
       shorter \cup {Append(h, r) : h \in {x \in shorter : Len(x) = n - 1},
                                    r \in {d \in StoredDocs : Matches(q, d)}}

\* a category selection, a page request and a store whose cursor yields
\* documents that satisfy build_rescue_query(filter_type)
InitFind ==
  /\ filter_type \in {StrV(f) : f \in ALLOWED_FILTERS}
  /\ heap \in FindResults(build_rescue_query(filter_type).query, MaxRows)
  /\ request \in [sort_by : SortBys, page_current : {None, IntV(1)},
                   page_size : {None, IntV(2)}]
  /\ store \in [up : BOOLEAN, page : {[i \in 1..Len(heap) |-> i]},
                 counts : {0}]
  /\ criteria = EmptyCriteria
  /\ query = NoQuery
  /\ ret = None
  /\ calls = <<>>
  /\ columns = {}
  /\ pipeline = <<>>
  /\ threads = <<>>
  /\ rows = <<>>
  /\ pc = "call"
  /\ arg = 0
  /\ score = NoScore
  /\ ranked = <<>>
  /\ exc = ""

NextFind == UpdateTable

SpecFind == InitFind /\ [][NextFind]_vars

(***************************** mongo_repo.py *******************************)

\* a match_query that is no mapping: the text 'not a dict'
NotADict == [t |-> "str", conds |-> <<>>]

\* isinstance(e, PyMongoError), on the name of the class of e
IsPyMongoError(e) ==
  e \in {"PyMongoError", "OperationFailure", "ServerSelectionTimeoutError"}

Stage(name, body) == [stage |-> name, body |-> body]

\* the pipeline of aggregate_breed_counts and aggregate_sex_counts, which
\* group on the given field
GroupPipeline(match_query, field) ==
  <<Stage("$match", match_query), Stage("$group", field),
    Stage("$sort", "count"), Stage("$project", field)>>

AgePipeline(match_query) ==
  <<Stage("$match", match_query),
    Stage("$match", "age_upon_outcome_in_weeks is a number"),
    Stage("$group", "min, max, avg"), Stage("$project", "min, max, avg")>>

\* try: return list(self.collection.aggregate(pipeline))
\* except PyMongoError: return []
aggregate_pipeline(st, pipe) ==
  IF st.raises = ""
  THEN [exc |-> "", ret |-> st.result, pipeline |-> pipe]
  ELSE IF IsPyMongoError(st.raises)
  THEN [exc |-> "", ret |-> <<>>, pipeline |-> pipe]
  ELSE [exc |-> st.raises, ret |-> <<>>, pipeline |-> pipe]

aggregate_breed_counts(st, match_query) ==
  aggregate_pipeline(st, GroupPipeline(match_query, "breed"))

aggregate_sex_counts(st, match_query) ==
  aggregate_pipeline(st, GroupPipeline(match_query, "sex_upon_outcome"))

aggregate_age_summary(st, match_query) ==
  aggregate_pipeline(st, AgePipeline(match_query))

\* what collection.aggregate returns when it returns
AggregateResults ==
  {<<>>, <<[breed |-> "Lab", count |-> 50]>>,
   <<[breed |-> "Lab", count |-> 50], [breed |-> "Terrier", count |-> 30]>>}

\* what collection.aggregate raises: nothing, errors of the driver, or a
\* plain Exception
AggregateRaises ==
  {"", "PyMongoError", "OperationFailure", "ServerSelectionTimeoutError",
   "Exception"}

MatchQueries ==
  {QueryFor(ft) : ft \in {StrV("all"), StrV("water"), StrV("mountain"),
                          StrV("disaster")}}
    \cup {And(<<SexIs("Intact Female")>>), NotADict}

\* a match query and a collection whose aggregate returns or raises
InitRepo ==
  /\ heap = <<>>
  /\ criteria = EmptyCriteria
  /\ filter_type = None
  /\ query \in MatchQueries
  /\ ret = None
  /\ request = [sort_by |-> <<>>, page_current |-> None, page_size |-> None]
  /\ store \in [up : {TRUE}, page : {<<>>}, counts : {0},
                 raises : AggregateRaises, result : AggregateResults]
  /\ calls = <<>>
  /\ columns = {}
  /\ pipeline = <<>>
  /\ threads = <<>>
  /\ InitCall

AggregateBreedCounts ==
  /\ pc = "call"
  /\ LET a == aggregate_breed_counts(store, query) IN
     /\ ret' = a.ret
     /\ exc' = a.exc
     /\ pipeline' = a.pipeline
  /\ calls' = <<"aggregate_breed_counts">>
  /\ pc' = "aggregated"
  /\ UNCHANGED <<heap, rows, criteria, arg, score, ranked, filter_type,
                 query, request, store, columns, threads>>

AggregateSexCounts ==
  /\ pc = "call"
  /\ LET a == aggregate_sex_counts(store, query) IN
     /\ ret' = a.ret
     /\ exc' = a.exc
     /\ pipeline' = a.pipeline
  /\ calls' = <<"aggregate_sex_counts">>
  /\ pc' = "aggregated"
  /\ UNCHANGED <<heap, rows, criteria, arg, score, ranked, filter_type,
                 query, request, store, columns, threads>>

AggregateAgeSummary ==
  /\ pc = "call"
  /\ LET a == aggregate_age_summary(store, query) IN
     /\ ret' = a.ret
     /\ exc' = a.exc
     /\ pipeline' = a.pipeline
  /\ calls' = <<"aggregate_age_summary">>
  /\ pc' = "aggregated"
  /\ UNCHANGED <<heap, rows, criteria, arg, score, ranked, filter_type,
                 query, request, store, columns, threads>>

NextRepo == AggregateBreedCounts \/ AggregateSexCounts \/ AggregateAgeSummary

SpecRepo == InitRepo /\ [][NextRepo]_vars

(*************************** concurrent callers ****************************)

MaxShared == 2

Callers == {"a", "b"}

\* the rows the callers share: a full match for water, a partial match, and
\* a raw record with an _id and a textual age
SharedRecords ==
  {MkRecord([_id |-> i, breed |-> b, age_upon_outcome_in_weeks |-> a,
             sex_upon_outcome |-> x]) :
     <<i, b, a, x>> \in
       {<<Absent, StrV(Lab), IntV(52), StrV(IntactFemale)>>,
        <<Absent, StrV("Terrier Mix"), IntV(50), StrV("Intact Male")>>,
        <<StrV("65a1"), StrV(Lab), StrV("52"), Absent>>}}

RECURSIVE SharedLists(_)
SharedLists(n) ==
  IF n = 0 THEN {<<>>}
  ELSE LET shorter == SharedLists(n - 1) IN
       shorter \cup {Append(h, r) : h \in {x \in shorter : Len(x) = n - 1},
                                    r \in SharedRecords}

\* the locals of a call: the function, its criteria argument, the index of
\* the for loop, scored_records, the list that is returned
NewCall(op, crit) ==
  [op |-> op, crit |-> crit, i |-> 1, scored |-> <<>>, out |-> <<>>,
   sc |-> NoScore, exc |-> "", done |-> FALSE]

\* two callers, each in a call of its own on the same rows
InitConcurrent ==
  /\ heap \in SharedLists(MaxShared)
  /\ threads \in [Callers ->
        {NewCall(op, crit) :
           op \in {"rank_results", "sanitize_rows", "score_dog"},
           crit \in {EmptyCriteria, WaterCriteria}}]
  /\ criteria = EmptyCriteria
  /\ filter_type = None
  /\ query = NoQuery
  /\ ret = None
  /\ request = [sort_by |-> <<>>, page_current |-> None, page_size |-> None]
  /\ store = [up |-> TRUE, page |-> <<>>, counts |-> 0]
  /\ calls = <<>>
  /\ columns = {}
  /\ pipeline = <<>>
  /\ InitCall

Running(c, op) == threads[c].op = op /\ ~threads[c].done /\ threads[c].exc = ""

\* one pass of the for loop of rank_results in caller c
RankStep(c) ==
  /\ Running(c, "rank_results")
  /\ threads[c].i <= Len(rows)
  /\ LET t == threads[c]
         st == ScoreRecord([heap |-> heap, scored |-> t.scored, exc |-> ""],
                           rows[t.i], t.crit)
     IN /\ heap' = st.heap
        /\ threads' = [threads EXCEPT ![c] =
             [t EXCEPT !.scored = st.scored, !.exc = st.exc, !.i = t.i + 1]]
  /\ UNCHANGED <<rows, criteria, pc, arg, score, ranked, exc, filter_type,
                 query, ret, request, store, calls, columns, pipeline>>

\* scored_records.sort(...) and the return of rank_results in caller c
RankReturn(c) ==
  /\ Running(c, "rank_results")
  /\ threads[c].i > Len(rows)
  /\ LET sorted == SortByScore(threads[c].scored) IN
     threads' = [threads EXCEPT ![c] =
       [@ EXCEPT !.out = [i \in 1..Len(sorted) |-> sorted[i][2]],
                 !.done = TRUE]]
  /\ UNCHANGED <<heap, rows, criteria, pc, arg, score, ranked, exc,
                 filter_type, query, ret, request, store, calls, columns,
                 pipeline>>

\* sanitize_record for the next row of sanitize_rows in caller c
SanitizeStep(c) ==
  /\ Running(c, "sanitize_rows")
  /\ threads[c].i <= Len(rows)
  /\ LET t == threads[c]
         r == sanitize_record(heap, rows[t.i])
     IN /\ heap' = r.heap
        /\ threads' = [threads EXCEPT ![c] =
             [t EXCEPT !.out = IF r.exc = "" THEN Append(t.out, r.ret.h)
                               ELSE t.out,
                       !.exc = r.exc, !.i = t.i + 1]]
  /\ UNCHANGED <<rows, criteria, pc, arg, score, ranked, exc, filter_type,
                 query, ret, request, store, calls, columns, pipeline>>

\* the return of sanitize_rows in caller c
SanitizeReturn(c) ==
  /\ Running(c, "sanitize_rows")
  /\ threads[c].i > Len(rows)
  /\ threads' = [threads EXCEPT ![c] = [@ EXCEPT !.done = TRUE]]
  /\ UNCHANGED <<heap, rows, criteria, pc, arg, score, ranked, exc,
                 filter_type, query, ret, request, store, calls, columns,
                 pipeline>>

\* score_dog(rows[1], criteria) in caller c
ScoreCall(c) ==
  /\ Running(c, "score_dog")
  /\ rows # <<>>
  /\ LET sc == score_dog(heap[rows[1]], threads[c].crit) IN
     threads' = [threads EXCEPT ![c] =
       [@ EXCEPT !.sc = sc, !.exc = sc.exc, !.done = TRUE]]
  /\ UNCHANGED <<heap, rows, criteria, pc, arg, score, ranked, exc,
                 filter_type, query, ret, request, store, calls, columns,
                 pipeline>>

NextConcurrent ==
  \E c \in Callers :
    \/ RankStep(c) \/ RankReturn(c)
    \/ SanitizeStep(c) \/ SanitizeReturn(c)
    \/ ScoreCall(c)

SpecConcurrent == InitConcurrent /\ [][NextConcurrent]_vars

(******************************* scoring ***********************************)

\* the record and the parts of the score of the last score_dog call
Rec == heap[rows[arg]]

Scored == pc = "scored" /\ score.exc = ""

Has(record, key) == key \in DOMAIN record /\ record[key] # None

RecAge == Get(Rec, "age_upon_outcome_in_weeks")

\* both ends of the age range are there and the record's age is a number
AgeComparable ==
  /\ criteria.min_weeks # None /\ criteria.max_weeks # None
  /\ Has(Rec, "age_upon_outcome_in_weeks")
  /\ RecAge.t \in {"int", "float", "bool"}

AgeWithin ==
  /\ AgeComparable
  /\ RecAge.s # "nan"
  /\ criteria.min_weeks.h <= RecAge.h /\ RecAge.h <= criteria.max_weeks.h

BreedIsPreferred ==
  /\ criteria.preferred_breeds.t # "none"
  /\ Has(Rec, "breed")
  /\ Rec["breed"].s \in criteria.preferred_breeds.elems

SexIsPreferred ==
  /\ criteria.preferred_sex # None
  /\ Has(Rec, "sex_upon_outcome")
  /\ Rec["sex_upon_outcome"].s = criteria.preferred_sex.s

\* C1: score_dog returns breed_match in {0,50}, age_match in {0,30}, sex_match
\* in {0,20} and total_score their sum, one of {0,20,30,50,70,80,100}.
C1_ScoreParts ==
  pc = "scored" =>
    /\ score.exc = ""
    /\ score.breed_match \in {0, 50}
    /\ score.age_match \in {0, 30}
    /\ score.sex_match \in {0, 20}
    /\ score.total_score = score.breed_match + score.age_match + score.sex_match
    /\ score.total_score \in {0, 20, 30, 50, 70, 80, 100}

C1_Witness == Scored /\ score.total_score = 70 /\ score.age_match = 0

C3_AsStated ==
  pc = "scored" =>
    /\ score.breed_match = 50 <=> BreedIsPreferred
    /\ ~BreedIsPreferred => score.breed_match = 0

\* C3: breed_match is 50 exactly when preferred_breeds is present, the
\* record's breed is present and not the empty text, and the breed is one of
\* preferred_breeds by exact, case-sensitive string equality; otherwise 0.
C3_BreedMatch ==
  pc = "scored" =>
    /\ score.exc = ""
    /\ score.breed_match = 50 <=> (BreedIsPreferred /\ Rec["breed"].s # "")
    /\ ~(BreedIsPreferred /\ Rec["breed"].s # "") => score.breed_match = 0

C3_Witness ==
  /\ Scored /\ score.breed_match = 50
  /\ "" \in criteria.preferred_breeds.elems

\* C4 as stated: sex_match is 20 exactly when preferred_sex is present, the
\* record's sex_upon_outcome is present and equals preferred_sex exactly;
\* otherwise 0.
C4_AsStated ==
  pc = "scored" =>
    /\ score.sex_match = 20 <=> SexIsPreferred
    /\ ~SexIsPreferred => score.sex_match = 0

\* C4: sex_match is 20 exactly when preferred_sex is present, the record's
\* sex_upon_outcome is present and not the empty text, and it equals
\* preferred_sex by exact, case-sensitive string equality; otherwise 0.
C4_SexMatch ==
  pc = "scored" =>
    /\ score.exc = ""
    /\ score.sex_match = 20 <=> (SexIsPreferred /\ Rec["sex_upon_outcome"].s # "")
    /\ ~(SexIsPreferred /\ Rec["sex_upon_outcome"].s # "") => score.sex_match = 0

C4_Witness ==
  /\ Scored /\ score.sex_match = 20 /\ score.breed_match = 0

\* C5: a criteria dimension that is absent scores 0 for its component
\* whatever the record holds; under the empty criteria every part of the
\* score and the total are 0.
C5_AbsentDimension ==
  pc = "scored" =>
    /\ score.exc = ""
    /\ criteria.preferred_breeds.t = "none" => score.breed_match = 0
    /\ (criteria.min_weeks = None \/ criteria.max_weeks = None)
         => score.age_match = 0
    /\ criteria.preferred_sex = None => score.sex_match = 0
    /\ criteria = EmptyCriteria =>
         /\ score.breed_match = 0 /\ score.age_match = 0
         /\ score.sex_match = 0 /\ score.total_score = 0

C5_Witness ==
  /\ Scored
  /\ criteria.min_weeks = None /\ criteria.max_weeks # None
  /\ RecAge = IntV(52)
  /\ score.age_match = 0 /\ score.breed_match = 50

\* the field is missing, null or, for the age, a text
Unusable(record, key) ==
  \/ key \notin DOMAIN record
  \/ record[key] = None
  \/ key = "age_upon_outcome_in_weeks" /\ record[key].t = "str"

\* C6: score_dog and rank_results never raise for a record whose breed, sex
\* or age is missing, null or (the age) a text such as "52 weeks"; that
\* dimension scores 0 and the others score as usual: a record with only a
\* matching breed scores 50, an empty record scores 0.
C6_NeverRaises ==
  /\ pc # "call" => exc = ""
  /\ pc = "scored" =>
       /\ score.exc = ""
       /\ Unusable(Rec, "breed") => score.breed_match = 0
       /\ Unusable(Rec, "age_upon_outcome_in_weeks") => score.age_match = 0
       /\ Unusable(Rec, "sex_upon_outcome") => score.sex_match = 0
       /\ Unusable(Rec, "age_upon_outcome_in_weeks") =>
            /\ score.breed_match = 50 <=> (BreedIsPreferred /\ Rec["breed"].s # "")
            /\ score.sex_match = 20
                 <=> (SexIsPreferred /\ Rec["sex_upon_outcome"].s # "")
       /\ (DOMAIN Rec = {"breed"} /\ BreedIsPreferred /\ Rec["breed"].s # "")
            => score.total_score = 50
       /\ DOMAIN Rec = {} => score.total_score = 0
  /\ pc = "ranked" =>
       /\ Len(ranked) = Len(rows)
       /\ \A i \in 1..Len(ranked) :
            /\ heap[ranked[i]]["match_score"].t = "int"
            /\ DOMAIN heap[rows[i]] = {} =>
                 \E j \in 1..Len(ranked) : heap[ranked[j]]["match_score"] = IntV(0)

C6_Witness ==
  /\ Scored
  /\ criteria.min_weeks # None /\ criteria.max_weeks # None
  /\ RecAge = StrV("52 weeks")
  /\ "sex_upon_outcome" \notin DOMAIN Rec
  /\ score.total_score = 50

(******************************* ranking ***********************************)

\* a rank_results call: the step from its arguments to its result
RankCall == pc = "call" /\ pc' = "ranked"

ScoreKeys == {"match_score", "score_breakdown"}

\* the record without the two fields rank_results sets
Fields(record) == [k \in (DOMAIN record) \ ScoreKeys |-> record[k]]

Perms(n) == {p \in [1..n -> 1..n] : \A i, j \in 1..n : p[i] = p[j] => i = j}

\* the records of the result, in order
Ranked == [i \in 1..Len(ranked) |-> heap[ranked[i]]]

MatchScore(record) == record["match_score"].h \div 2

C8_Stable ==
  [][RankCall =>
       \A n \in {0, 20, 30, 50, 70, 80, 100} :
         LET out == SelectSeq([i \in 1..Len(ranked') |-> heap'[ranked'[i]]],
                              LAMBDA r : MatchScore(r) = n)
             inp == SelectSeq([i \in 1..Len(rows) |-> heap[rows[i]]],
                              LAMBDA r : score_dog(r, criteria).total_score = n)
         IN [i \in 1..Len(out) |-> Fields(out[i])]
              = [i \in 1..Len(inp) |-> Fields(inp[i])]]_vars

C8_Witness ==
  /\ pc = "ranked" /\ Len(ranked) = 3
  /\ MatchScore(Ranked[1]) > MatchScore(Ranked[2])
  /\ MatchScore(Ranked[2]) = MatchScore(Ranked[3])
  /\ Fields(Ranked[2]) # Fields(Ranked[3])
  /\ Fields(Ranked[2]) = Fields(heap[rows[1]])
  /\ Fields(Ranked[3]) = Fields(heap[rows[2]])

\* the result holds, for the input record r, a record with r's score, r's
\* breakdown and r's fields of the set keys
Scores(out, r, keys) ==
  LET sc == score_dog(r, criteria) IN
  /\ ScoreKeys \subseteq DOMAIN out
  /\ out["match_score"] = IntV(sc.total_score)
  /\ out["score_breakdown"] = Dict(sc.breed_match, sc.age_match, sc.sex_match)
  /\ \A k \in keys : k \in DOMAIN out /\ out[k] = r[k]

\* the call leaves the input list and every record of it as they were
InputUnchanged ==
  /\ rows' = rows
  /\ \A a \in DOMAIN heap : heap'[a] = heap[a]

\* C9 as stated: the result's records carry match_score and score_breakdown
\* and every field of their input record with an unmodified value; the
\* input records and the input list are unchanged.
C9_AsStated ==
  [][RankCall =>
       /\ InputUnchanged
       /\ \E p \in Perms(Len(rows)) :
            \A i \in 1..Len(rows) :
              /\ i \in DOMAIN ranked'
              /\ Scores(heap'[ranked'[i]], heap[rows[p[i]]],
                        DOMAIN heap[rows[p[i]]])]_vars

\* C9: the result's records are copies that carry match_score (the total
\* score) and score_breakdown, and every field of their input record other
\* than match_score and score_breakdown with an unmodified value; the input
\* records and the input list are unchanged.
C9_Copies ==
  [][RankCall =>
       /\ InputUnchanged
       /\ \A i \in DOMAIN ranked' : ranked'[i] \notin DOMAIN heap
       /\ \E p \in Perms(Len(rows)) :
            \A i \in 1..Len(rows) :
              /\ i \in DOMAIN ranked'
              /\ Scores(heap'[ranked'[i]], heap[rows[p[i]]],
                        (DOMAIN heap[rows[p[i]]]) \ ScoreKeys)]_vars

C9_Witness ==
  /\ pc = "ranked" /\ Len(ranked) = 2
  /\ "match_score" \in DOMAIN heap[rows[1]]
  /\ heap[rows[1]]["match_score"] = IntV(999)
  /\ MatchScore(Ranked[2]) = 30
  /\ Ranked[2]["name"] = heap[rows[1]]["name"]

\* C10: rank_results returns every input record exactly once: the result
\* has the length of the input and is a permutation of it.
C10_Permutation ==
  [][RankCall =>
       /\ Len(ranked') = Len(rows)
       /\ \E p \in Perms(Len(rows)) :
            \A i \in 1..Len(rows) :
              Fields(heap'[ranked'[i]]) = Fields(heap[rows[p[i]]])]_vars

C10_Witness ==
  /\ pc = "ranked" /\ Len(ranked) = 3 /\ Len(rows) = 3
  /\ DOMAIN heap[rows[1]] = {}
  /\ MatchScore(Ranked[3]) = 0
  /\ Fields(Ranked[1]) # Fields(heap[rows[1]])

(************************* catalog and queries *****************************)

Category(name) == filter_type = StrV(name)

ValidCategory ==
  \/ Category("all") \/ Category("water")
  \/ Category("mountain") \/ Category("disaster")

TableIs(breeds, sex, lo, hi) ==
  /\ criteria.preferred_breeds = BreedSet(breeds)
  /\ criteria.preferred_sex = StrV(sex)
  /\ criteria.min_weeks = IntV(lo)
  /\ criteria.max_weeks = IntV(hi)

\* C11: criteria_for_filter returns the table values for water, mountain and
\* disaster, four absent fields for all, and min <= max whenever both are
\* present.
C11_CriteriaTable ==
  pc = "criteria" =>
    /\ Category("water") =>
         TableIs({"Labrador Retriever Mix", "Chesapeake Bay Retriever",
                  "Newfoundland"}, "Intact Female", 26, 156)
    /\ Category("mountain") =>
         TableIs({"German Shepherd", "Alaskan Malamute", "Old English Sheepdog",
                  "Siberian Husky", "Rottweiler"}, "Intact Male", 26, 156)
    /\ Category("disaster") =>
         TableIs({"Doberman Pinscher", "German Shepherd", "Golden Retriever",
                  "Bloodhound", "Rottweiler"}, "Intact Male", 20, 300)
    /\ Category("all") =>
         /\ criteria.preferred_breeds.t = "none"
         /\ criteria.preferred_sex = None
         /\ criteria.min_weeks = None
         /\ criteria.max_weeks = None
    /\ (criteria.min_weeks # None /\ criteria.max_weeks # None) =>
         /\ criteria.min_weeks.t = "int" /\ criteria.max_weeks.t = "int"
         /\ criteria.min_weeks.h <= criteria.max_weeks.h

C11_Witness ==
  /\ pc = "criteria" /\ Category("disaster")
  /\ criteria.max_weeks = IntV(300)

\* the query is a conjunction of three conditions: the breed in the set, the
\* sex equal to the label, the age between lo and hi inclusive
QueryIs(breeds, sex, lo, hi) ==
  /\ query.t = "$and"
  /\ Len(query.conds) = 3
  /\ \E b, x, a \in 1..3 :
       /\ {b, x, a} = 1..3
       /\ query.conds[b].field = "breed" /\ query.conds[b].op = "$in"
       /\ {query.conds[b].strs[i] : i \in 1..Len(query.conds[b].strs)} = breeds
       /\ query.conds[x].field = "sex_upon_outcome" /\ query.conds[x].op = "$eq"
       /\ query.conds[x].strs = <<sex>>
       /\ query.conds[a].field = "age_upon_outcome_in_weeks"
       /\ query.conds[a].op = "$gte$lte"
       /\ query.conds[a].gte = lo /\ query.conds[a].lte = hi

\* C12: build_rescue_query returns, for water, mountain and disaster, the
\* conjunction of the three conditions of the category's table row, and for
\* all the empty predicate, which matches every record.
C12_QueryTable ==
  pc = "queried" =>
    /\ ValidCategory => exc = ""
    /\ Category("water") =>
         QueryIs({"Labrador Retriever Mix", "Chesapeake Bay Retriever",
                  "Newfoundland"}, "Intact Female", 26, 156)
    /\ Category("mountain") =>
         QueryIs({"German Shepherd", "Alaskan Malamute", "Old English Sheepdog",
                  "Siberian Husky", "Rottweiler"}, "Intact Male", 26, 156)
    /\ Category("disaster") =>
         QueryIs({"Doberman Pinscher", "German Shepherd", "Golden Retriever",
                  "Bloodhound", "Rottweiler"}, "Intact Male", 20, 300)
    /\ Category("all") =>
         /\ query.t = "{}" /\ query.conds = <<>>
         /\ Matches(query, heap[1])

C12_Witness ==
  /\ pc = "queried" /\ Category("disaster") /\ exc = ""
  /\ Len(query.conds) = 3
  /\ ~Matches(query, heap[1])

\* C13: validate_filter_type returns its argument unchanged when it is
\* exactly one of all, water, mountain, disaster, and raises ValueError for
\* every other value: no case folding, no trimming.
C13_Validate ==
  pc = "validated" =>
    /\ ValidCategory => exc = "" /\ ret = filter_type
    /\ ~ValidCategory => exc = "ValueError"

C13_Witness ==
  /\ pc = "validated" /\ filter_type = StrV(" water") /\ exc = "ValueError"

\* C14: build_rescue_query validates the category itself: for a value that
\* is none of the four it raises ValueError and returns no predicate.
C14_QueryValidates ==
  (pc = "queried" /\ ~ValidCategory) =>
    (exc = "ValueError" /\ query = NoQuery)

C14_Witness ==
  /\ pc = "queried" /\ filter_type = StrV("invalid")
  /\ exc = "ValueError" /\ query = NoQuery

(****************************** sanitizing *********************************)

AgeKey == "age_upon_outcome_in_weeks"

\* the record a sanitize_record call returned
Sanitized == heap[ret.h]

\* C15: sanitize_record is idempotent: sanitizing a sanitized record gives
\* a record equal to it field for field.
C15_Idempotent ==
  [][(pc = "sanitized" /\ pc' = "resanitized") =>
       /\ exc' = ""
       /\ heap'[ret'.h] = heap[ret.h]
       /\ heap'[ret.h] = heap[ret.h]]_vars

C15_Witness ==
  /\ pc = "resanitized" /\ exc = ""
  /\ Get(heap[1], AgeKey) = StrV("12")
  /\ Sanitized[AgeKey] = FloatV(24)
  /\ "_id" \in DOMAIN heap[1]

\* C16: sanitize_record coerces the age without ever raising: null or absent
\* stays null, a value that converts to a number becomes that number ("12"
\* becomes 12.0), any other value becomes null; afterwards the age is null
\* or a number.
C16_AgeCoerced ==
  pc = "sanitized" =>
    /\ exc = ""
    /\ Sanitized[AgeKey] = None \/ Sanitized[AgeKey].t = "float"
    /\ Get(heap[1], AgeKey) = None => Sanitized[AgeKey] = None
    /\ Get(heap[1], AgeKey) = StrV("12") => Sanitized[AgeKey] = FloatV(24)
    /\ Get(heap[1], AgeKey) = IntV(12) => Sanitized[AgeKey] = FloatV(24)
    /\ Get(heap[1], AgeKey) \in {StrV("bad"), StrV(""), ListV}
         => Sanitized[AgeKey] = None

SanitizerKeys ==
  {"breed", "sex_upon_outcome", "age_upon_outcome_in_weeks", "name",
   "location_lat", "location_long"}

\* C17: the output of sanitize_record has no _id, has the three required
\* keys (null when absent in the input), name (empty text when absent),
\* location_lat and location_long (null when absent); every input key other
\* than _id and the age keeps its input value; the input is not modified.
C17_Keys ==
  [][(pc = "call" /\ pc' = "sanitized" /\ exc' = "") =>
       LET inp == heap[rows[1]]
           out == heap'[ret'.h]
       IN /\ "_id" \notin DOMAIN out
          /\ DOMAIN out = ((DOMAIN inp) \ {"_id"}) \cup SanitizerKeys
          /\ \A k \in SanitizerKeys \ DOMAIN inp :
               out[k] = IF k = "name" THEN StrV("") ELSE None
          /\ \A k \in (DOMAIN inp) \ {"_id", AgeKey} : out[k] = inp[k]
          /\ heap'[rows[1]] = inp
          /\ ret'.h # rows[1]
          /\ rows' = rows]_vars

C17_Witness ==
  /\ pc = "sanitized" /\ exc = ""
  /\ DOMAIN heap[1] = {"_id", "name", "animal_type"}
  /\ heap[1]["name"] = None
  /\ Sanitized["name"] = None
  /\ Sanitized["breed"] = None

(***************************** the callbacks *******************************)

\* whether the callback called the function of that name
Called(f) == \E i \in 1..Len(calls) : calls[i] = f

\* the rows update_table returned
Data == [i \in 1..Len(ranked) |-> heap[ranked[i]]]

C19_InvalidCategory ==
  (pc = "table" /\ ~ValidCategory) =>
    /\ ranked = <<>> /\ columns = {}
    /\ exc = ""
    /\ ~Called("read") /\ ~Called("sanitize_rows") /\ ~Called("rank_results")
    /\ Len(heap) = Len(store.page)

C19_Witness ==
  /\ pc = "table"
  /\ filter_type = StrV("WATER")
  /\ store.up /\ Len(store.page) = MaxRows
  /\ ranked = <<>>

Placeholders ==
  {StrV("Invalid filter."), StrV("Database unavailable."),
   StrV("No data available for this filter."),
   StrV("No summary data available.")}

\* C20: when ping is false or the read returns no rows, update_table
\* returns empty data and empty columns, raises nothing and does not call
\* rank_results; when ping is false update_graph and update_summary return
\* a placeholder text and call no aggregation.
C20_StoreUnavailable ==
  /\ (pc = "table" /\ ValidCategory /\ (~store.up \/ rows = <<>>)) =>
       /\ ranked = <<>> /\ columns = {}
       /\ exc = ""
       /\ ~Called("rank_results")
  /\ (pc = "table" /\ ~store.up) => ~Called("read")
  /\ (pc \in {"graph", "summary"} /\ ~store.up) =>
       /\ ret \in Placeholders
       /\ ~Called("aggregate_breed_counts")
       /\ ~Called("aggregate_sex_counts")
       /\ ~Called("aggregate_age_summary")

C20_Witness ==
  /\ pc = "table"
  /\ filter_type = StrV("water")
  /\ store.up /\ Len(store.page) = 2
  /\ request.page_current = IntV(1) /\ request.page_size = IntV(2)
  /\ Called("read")
  /\ ranked = <<>>

(***************************** the repository ******************************)

BreedCountsCall == pc = "aggregated" /\ calls = <<"aggregate_breed_counts">>

\* C21: aggregate_breed_counts returns the empty list and raises nothing
\* whenever the collection's aggregate raises, a plain Exception included;
\* when aggregate returns, it returns that list unchanged; the first stage
\* of the pipeline is $match with the caller's query.
C21_AggregateErrors ==
  BreedCountsCall =>
    /\ store.raises # "" => (exc = "" /\ ret = <<>>)
    /\ store.raises = "" => (exc = "" /\ ret = store.result)
    /\ pipeline # <<>> => pipeline[1] = Stage("$match", query)

\* C22: aggregate_breed_counts called with a match query that is no mapping
\* raises ValueError and hands no pipeline to the collection.
C22_AggregateValidates ==
  (BreedCountsCall /\ query = NotADict) =>
    (exc = "ValueError" /\ pipeline = <<>>)

(************************* the disaster example ****************************)

\* rank_results has ranked the test's list under the disaster criteria
DisasterRanked ==
  /\ pc = "ranked"
  /\ Category("disaster")
  /\ [i \in 1..Len(rows) |-> heap[rows[i]]]
       = <<Doberman, TerrierMix, GermanShepherd>>

\* the i-th record of the result is dog, with that match_score
RankedIs(i, dog, n) ==
  Fields(Ranked[i]) = dog /\ MatchScore(Ranked[i]) = n

CallbackDone == pc \in {"table", "graph", "summary"}

\* C24: in update_table, update_graph and update_summary the call of
\* validate_filter_type comes before every other call (query construction,
\* criteria resolution, ping, read, aggregation), and when the validation
\* fails no other call is made.
C24_ValidationFirst ==
  CallbackDone =>
    /\ calls # <<>>
    /\ calls[1] = "validate_filter_type"
    /\ \A i \in 2..Len(calls) : calls[i] # "validate_filter_type"
    /\ ~ValidCategory => calls = <<"validate_filter_type">>

C24_Witness ==
  /\ pc = "graph"
  /\ filter_type = StrV(" water")
  /\ store.up /\ store.counts > 0
  /\ Len(store.page) = MaxRows
  /\ calls = <<"validate_filter_type">>

(*************************** concurrent callers ****************************)

\* the rows as the callers were given them
SharedRows == [i \in 1..Len(rows) |-> heap[rows[i]]]

\* what the call of caller c returns when it runs alone on the shared rows
Alone(c) ==
  LET t == threads[c] IN
  IF t.op = "rank_results"
  THEN LET r == rank_results(SharedRows, rows, t.crit)
       IN [out |-> [i \in 1..Len(r.ret) |-> r.heap[r.ret[i]]], sc |-> NoScore]
  ELSE IF t.op = "sanitize_rows"
  THEN LET r == sanitize_rows(SharedRows, rows)
       IN [out |-> [i \in 1..Len(r.ret) |-> r.heap[r.ret[i]]], sc |-> NoScore]
  ELSE [out |-> <<>>, sc |-> score_dog(SharedRows[1], t.crit)]

\* what the call of caller c returned in the state after the step
Returned(c) ==
  [out |-> [i \in 1..Len(threads'[c].out) |-> heap'[threads'[c].out[i]]],
   sc |-> threads'[c].sc]

\* C25: under every interleaving of two callers running score_dog,
\* rank_results or sanitize_rows on the same rows (and the same or different
\* criteria), no step changes the shared rows or a caller's criteria, no call
\* raises, and each call returns what it returns when it runs alone.
C25_NoInterference ==
  [][/\ SharedRows' = SharedRows
     /\ \A c \in Callers :
          /\ threads'[c].crit = threads[c].crit
          /\ threads'[c].exc = ""
          /\ (~threads[c].done /\ threads'[c].done) =>
               Returned(c) = Alone(c)]_vars

C25_Witness ==
  /\ threads # <<>>
  /\ Len(rows) = 2
  /\ threads["a"].op = "rank_results" /\ threads["a"].done
  /\ threads["b"].op = "sanitize_rows" /\ threads["b"].done
  /\ threads["a"].crit = WaterCriteria
  /\ threads["a"].out[1] > threads["b"].out[1]
  /\ threads["a"].out[2] < threads["b"].out[2]
  /\ heap[threads["a"].out[1]]["match_score"] = IntV(100)
  /\ heap[rows[1]] # heap[rows[2]]

(**************************** the two tables *******************************)

\* the record has a text breed, a text sex and a numeric age
PlainRecord ==
  /\ Get(heap[1], "breed").t = "str"
  /\ Get(heap[1], "sex_upon_outcome").t = "str"
  /\ IsNumber(Get(heap[1], "age_upon_outcome_in_weeks"))

\* C26: for water, mountain and disaster, a record with a text breed, a text
\* sex and a numeric age satisfies build_rescue_query(category) if and only
\* if score_dog gives it total_score 100 under criteria_for_filter(category).
C26_TablesAgree ==
  (pc = "matched" /\ PlainRecord) =>
    (Matches(query, heap[1]) <=> score.total_score = 100)

C26_Witness ==
  /\ pc = "matched" /\ PlainRecord
  /\ Category("disaster")
  /\ heap[1]["age_upon_outcome_in_weeks"] = IntV(20)
  /\ Matches(query, heap[1])
  /\ score.total_score = 100

(************************ pages of matching rows ***************************)

\* C27: when every row the store returns satisfies the query it was given,
\* every row of the page update_table returns has the same match_score (100
\* for water, mountain and disaster, 0 for all), and the rows are in the
\* order in which they came from the store, with and without sort_by.
C27_MatchingPage ==
  (pc = "table" /\ exc = "" /\ ranked # <<>>) =>
    /\ \A i \in 1..Len(Data) :
         MatchScore(Data[i]) = IF Category("all") THEN 0 ELSE 100
    /\ Len(Data) = Len(rows)
    /\ \A i \in 1..Len(Data) : Fields(Data[i]) = heap[rows[i]]

C27_Witness ==
  /\ pc = "table" /\ exc = ""
  /\ Category("disaster")
  /\ ~HasSort(request.sort_by)
  /\ Called("sorted")
  /\ Len(ranked) = MaxRows
  /\ Data[1]["name"] = StrV("Di")
  /\ Data[2]["name"] = StrV("Cy")
  /\ MatchScore(Data[1]) = 100

(************************* unvalidated criteria ****************************)

\* C28: for every value other than 'water', 'mountain' and 'disaster', the
\* invalid 'WATER', ' water', '', 'invalid', None and 5 among them,
\* criteria_for_filter raises nothing and returns the MatchCriteria whose
\* four fields are None, under which score_dog gives the record
\* total_score 0.
C28_NoValidation ==
  (pc = "criteria"
   /\ ~(Category("water") \/ Category("mountain") \/ Category("disaster"))) =>
    /\ exc = ""
    /\ criteria.preferred_breeds = NoBreeds /\ criteria.min_weeks = None
    /\ criteria.max_weeks = None /\ criteria.preferred_sex = None
    /\ score_dog(heap[1], criteria).exc = ""
    /\ score_dog(heap[1], criteria).total_score = 0

C28_Witness ==
  /\ pc = "criteria"
  /\ filter_type = StrV(" water")
  /\ criteria = EmptyCriteria
  /\ score_dog(heap[1], WaterCriteria).total_score = 100

(*************************** passthrough fields ****************************)

\* the three fields of a record that the scoring names
ScoredFields(record) ==
  [k \in {"breed", "age_upon_outcome_in_weeks", "sex_upon_outcome"} |->
     Get(record, k)]

\* C29: the breakdown score_dog returns for a record is the one it returns
\* for the record's breed, age_upon_outcome_in_weeks and sex_upon_outcome
\* alone, and two records that rank_results scored under the same criteria
\* and that agree on the three fields carry the same match_score and the
\* same score_breakdown, whatever their other fields hold.
C29_OnlyThreeFields ==
  /\ pc = "scored" =>
       score = score_dog(ScoredFields(heap[rows[arg]]), criteria)
  /\ (pc = "ranked" /\ exc = "") =>
       /\ Len(Ranked) = Len(rows)
       /\ \A i, j \in 1..Len(Ranked) :
            ScoredFields(Ranked[i]) = ScoredFields(Ranked[j]) =>
              /\ Ranked[i]["match_score"] = Ranked[j]["match_score"]
              /\ Ranked[i]["score_breakdown"] = Ranked[j]["score_breakdown"]

C29_Witness ==
  /\ pc = "ranked" /\ exc = ""
  /\ criteria = WaterCriteria
  /\ ScoredFields(heap[1]) = ScoredFields(heap[2])
  /\ Get(heap[1], "breed") = None
  /\ Get(heap[1], "name") = StrV(Lab)
  /\ Get(heap[1], "match_score") = IntV(999)
  /\ Get(heap[2], "name") = StrV("Ace")
  /\ Ranked[1]["match_score"] = IntV(50)
  /\ Ranked[2]["match_score"] = IntV(50)

(************************* scores after sanitizing *************************)

\* C30: for every record and criteria, sanitize_record returns a record whose
\* breed_match and sex_match under score_dog equal those of the raw record
\* and whose age_match and total_score are no lower; the age_match differs
\* only when the raw age is no int or float and converts to a number
\* within the range.
C30_NeverLowers ==
  /\ pc = "sanitized" => exc = ""
  /\ pc = "rescored" =>
       LET raw == score_dog(heap[rows[1]], criteria)
           age == Get(heap[rows[1]], "age_upon_outcome_in_weeks")
       IN /\ raw.exc = "" /\ score.exc = ""
          /\ score.breed_match = raw.breed_match
          /\ score.sex_match = raw.sex_match
          /\ score.age_match >= raw.age_match
          /\ score.total_score >= raw.total_score
          /\ score.age_match # raw.age_match =>
               ~IsNumber(age) /\ score.age_match = AGE_WEIGHT

====
